---- MODULE Spec2Model ----
(***************************************************************************)
(* A model of the state machine engine of tjmonk/statemachine:             *)
(* src/engine.c (RunStateMachine, waitSignal, HandleSignal,                *)
(* CheckTransition, CheckInConditions, EnterState, ExitState, FindState)   *)
(* over the state graph built by the parser (src/statemachine.y), and of   *)
(* its timer manager: src/timer.c (CreateTimer, CreateTick, DeleteTimer)   *)
(* over the POSIX timers of the process, driven by the timer statements    *)
(* of the grammar.                                                         *)
(*                                                                         *)
(* The calls into libvaraction (ProcessExpr, ProcessCompoundStatement)     *)
(* are calls into another repository: the status they return is a          *)
(* nondeterministic choice, and the value of a guard is computed from the  *)
(* guard tree with the values of the system variables chosen freely        *)
(* (other processes write them at any time).                               *)
(***************************************************************************)
EXTENDS Integers, Sequences, FiniteSets, TLC

VARIABLES machine, pCurrentState, activeTimer, pc, signum, id,
          pState, trans, result, log,
          timers, ktimers, gens, call, tresult,
          src, stack, translist, notified, blocked, pending,
          skipped, proc, store

\* the engine's variables
engineVars == <<machine, pCurrentState, activeTimer, pc, signum, id,
                pState, trans, result, log>>

\* the timer manager's variables: the timers array, the timers of the
\* process in the kernel, the record of the creations, the last statement
\* executed and the status it returned
timerVars == <<timers, ktimers, gens, call, tresult>>

\* the process around the engine: the definition text given to yyparse,
\* the states and transitions the parser has reduced, the VAR_Notify calls
\* made, the signal mask, the queue of pending signals, the events the last
\* sigwaitinfo passed over, the resources and status of the process, and
\* the values of the variables of the variable server
parserVars == <<src, stack, translist, notified>>

mainVars == <<parserVars, blocked, pending, skipped, proc, store>>

vars == <<engineVars, timerVars, mainVars>>

\* ---------------------------------------------------------------- bounds
\* timer numbers and variable handles used by events and guards: 1..MaxId
MaxId == 2

Ids == 1..MaxId

\* timer handles the system hands out: 0..MaxHandle
MaxHandle == 1

\* timer statements executed in one run
MaxCalls == 2

\* expirations counted per created timer
MaxFired == 2

\* ------------------------------------------------------------- constants
TIMER_NOTIFICATION == "SIGRTMIN+5"

VAR_NOTIFICATION == "SIGRTMIN+6"

\* sigwaitinfo returned -1 (interrupted): neither of the two signals
NO_SIGNAL == "-1"

Signals == {TIMER_NOTIFICATION, VAR_NOTIFICATION, NO_SIGNAL}

EOK == "EOK"

\* Maximum number of timers allowed
MAX_TIMERS == 255

\* statuses a failing libvaraction call may hand back
LibErrs == {"EINVAL", "ENOTSUP"}

LibResults == {EOK} \cup LibErrs

\* ------------------------------------------------- expression tree nodes
\* a NULL Variable pointer
NullVar == [operation |-> "NULL", ui |-> 0, hVar |-> 0]

IsNull(v) == v.operation = "NULL"

Node(op, ui, hVar, l, r) ==
    [operation |-> op, ui |-> ui, hVar |-> hVar, left |-> l, right |-> r]

NewNumber(n) == Node("VA_NUM", n, 0, NullVar, NullVar)

NewIdentifier(h) == Node("VA_SYSVAR", 0, h, NullVar, NullVar)

CreateVariable(op, l, r) == Node(op, 0, 0, l, r)

\* timer_expression : TIMER number   -- the number node is relabelled
\* VA_TIMER and compared with the active timer register
TimerExpression(n) ==
    CreateVariable("VA_EQUALS",
                   [NewNumber(n) EXCEPT !.operation = "VA_TIMER"],
                   CreateVariable("VA_ACTIVE_TIMER", NullVar, NullVar))

\* the nodes of an expression tree
RECURSIVE NodesOf(_)
NodesOf(v) ==
    IF IsNull(v) THEN {} ELSE {v} \cup NodesOf(v.left) \cup NodesOf(v.right)

\* --------------------------------------------------- guard evaluation
\* value of a guard tree: vals are the values read from the variable
\* server, at is the active timer register
RECURSIVE Eval(_, _, _)
Eval(v, vals, at) ==
    CASE v.operation = "VA_NUM"          -> v.ui
      [] v.operation = "VA_TIMER"        -> v.ui
      [] v.operation = "VA_ACTIVE_TIMER" -> at
      [] v.operation = "VA_SYSVAR"       -> vals[v.hVar]
      [] v.operation = "VA_EQUALS"       ->
            IF Eval(v.left, vals, at) = Eval(v.right, vals, at) THEN 1 ELSE 0
      [] v.operation = "VA_OR"           ->
            IF Eval(v.left, vals, at) # 0 \/ Eval(v.right, vals, at) # 0
            THEN 1 ELSE 0
      [] v.operation = "VA_NOT"          ->
            IF Eval(v.left, vals, at) = 0 THEN 1 ELSE 0
      [] v.operation = "VA_MUL"          ->
            Eval(v.left, vals, at) * Eval(v.right, vals, at)
      [] OTHER                           -> 0

\* ------------------------------------------------------ guard matcher
RECURSIVE CheckInConditions(_, _, _)

\* the matcher with the signal test of the timer branch left out
CheckInConditions_AnySignal(pVariable, sig, ident) ==
    IF IsNull(pVariable) THEN "EINVAL"
    ELSE IF pVariable.operation = "VA_TIMER" /\ pVariable.ui = ident
         THEN EOK
    ELSE IF /\ pVariable.operation = "VA_SYSVAR"
            /\ sig = VAR_NOTIFICATION
            /\ pVariable.hVar = ident
         THEN EOK
    ELSE IF CheckInConditions(pVariable.left, sig, ident) = EOK THEN EOK
    ELSE IF CheckInConditions(pVariable.right, sig, ident) = EOK THEN EOK
    ELSE "ENOENT"

\* the matcher that does not descend into the right subtree
CheckInConditions_LeftOnly(pVariable, sig, ident) ==
    IF IsNull(pVariable) THEN "EINVAL"
    ELSE IF /\ pVariable.operation = "VA_TIMER"
            /\ sig = TIMER_NOTIFICATION
            /\ pVariable.ui = ident
         THEN EOK
    ELSE IF /\ pVariable.operation = "VA_SYSVAR"
            /\ sig = VAR_NOTIFICATION
            /\ pVariable.hVar = ident
         THEN EOK
    ELSE IF CheckInConditions(pVariable.left, sig, ident) = EOK THEN EOK
    ELSE "ENOENT"

CheckInConditions(pVariable, sig, ident) ==
    IF IsNull(pVariable) THEN "EINVAL"
    ELSE IF /\ pVariable.operation = "VA_TIMER"
            /\ sig = TIMER_NOTIFICATION
            /\ pVariable.ui = ident
         THEN EOK
    ELSE IF /\ pVariable.operation = "VA_SYSVAR"
            /\ sig = VAR_NOTIFICATION
            /\ pVariable.hVar = ident
         THEN EOK
    ELSE IF CheckInConditions(pVariable.left, sig, ident) = EOK THEN EOK
    ELSE IF CheckInConditions(pVariable.right, sig, ident) = EOK THEN EOK
    ELSE "ENOENT"

\* ------------------------------------------------- the parsed machines
\* a block is "NULL" (no StateEntry/StateExit object), "EMPTY" (an object
\* with no statements) or "STMTS" (an object with a statement list)
BlockKinds == {"NULL", "EMPTY", "STMTS"}

Transition(statename, pVariable) ==
    [statename |-> statename, pVariable |-> pVariable]

State(name, entry, tl, exit) ==
    [id |-> name, entry |-> entry, trans |-> tl, exit |-> exit]

\* guards over timer n and variable handle h
GTimer(n) == TimerExpression(n)

GVar(h) == CreateVariable("VA_EQUALS", NewIdentifier(h), NewNumber(1))

GMixed(n, h) ==
    CreateVariable("VA_OR",
                   CreateVariable("VA_EQUALS", NewIdentifier(h), NewNumber(n)),
                   TimerExpression(n))

GNot(h) == CreateVariable("VA_NOT", NewIdentifier(h), NullVar)

\* transition lists of a state named self whose neighbour is other,
\* in definition order
TransLists(self, other, n, h) ==
    { << >>,
      << Transition(other, GTimer(n)), Transition(self, GNot(h)) >>,
      << Transition("nowhere", GMixed(n, h)),
         Transition(other, GTimer(n)),
         Transition(self, GVar(h)) >>,
      << Transition(self, GTimer(n)), Transition(other, GMixed(n, h)) >> }

\* the machines whose guards use a timer number and a variable handle of P
WithInitOver(P) ==
    { << State("init", q[1], q[3], q[2]), State("a", q[1], q[4], q[2]) >> :
        q \in UNION { BlockKinds \X BlockKinds
                        \X TransLists("init", "a", p[1], p[2])
                        \X TransLists("a", "init", p[1], p[2]) :
                      p \in P } }

WithInit == WithInitOver(Ids \X Ids)

\* no definition file, or a definition without a state named init
NoInit == { << >> } \cup { Tail(m) : m \in WithInit }

Machines == WithInit \cup NoInit

\* ---------------------------------------------------------- FindState
\* first state of the list with the given name, 0 (NULL) when none
FindState_First(pStateList, stateName) ==
    IF pStateList = << >> THEN 0 ELSE 1

FindState(pStateList, stateName) ==
    IF \E i \in 1..Len(pStateList) : pStateList[i].id = stateName
    THEN CHOOSE i \in 1..Len(pStateList) :
            /\ pStateList[i].id = stateName
            /\ \A j \in 1..(i - 1) : pStateList[j].id # stateName
    ELSE 0

\* ------------------------------------------------------- log of a run
\* the steps of RunStateMachine's start, or of the current dispatch
Step(op, st, from, tr, res) ==
    [op |-> op, st |-> st, from |-> from, tr |-> tr, res |-> res,
     sig |-> signum, ident |-> id]

\* -------------------------------------------------------- EnterState
\* EnterState assigns the current state only when the target is found
NewCurrentState_Unchecked(cur, found) == found

NewCurrentState(cur, found) == IF found # 0 THEN found ELSE cur

\* status of the entry (or exit) block: r is what
\* ProcessCompoundStatement returns
BlockResult(kind, r) ==
    IF kind = "NULL" THEN "EINVAL"
    ELSE IF kind = "EMPTY" THEN EOK
    ELSE r

EnterState(targetState, tr, r) ==
    LET found == FindState(machine, targetState) IN
    /\ pCurrentState' = NewCurrentState(pCurrentState, found)
    /\ IF found # 0
       THEN /\ result' = BlockResult(machine[found].entry, r)
            /\ log' = log
                 \o << Step("switch", found, pCurrentState, tr, EOK) >>
                 \o ( IF machine[found].entry = "NULL"
                      THEN << Step("noentry", found, pCurrentState, tr,
                                   "EINVAL") >>
                      ELSE << Step("entry", found, pCurrentState, tr,
                                   BlockResult(machine[found].entry, r)) >> )
       ELSE /\ result' = "ENOENT"
            /\ log' = log
                 \o << Step("notfound", 0, pCurrentState, tr, "ENOENT") >>

\* ------------------------------------------------------- timer manager
Handles == 0..MaxHandle

\* the timer numbers a timer statement is written with
TimerArgs == {0, 1, MAX_TIMERS - 1, MAX_TIMERS}

\* the entries of the timers array those numbers can index
Slots == {i \in TimerArgs : i >= 0 /\ i < MAX_TIMERS}

\* intervals in milliseconds, as literals or as values of a variable
Intervals == {0, 1000}

\* no timer of the process has this handle
NoKTimer ==
    [live |-> FALSE, sival |-> 0, armed |-> FALSE, interval |-> 0, gen |-> 0]

\* timer_delete: the timer with the handle, if there is one, is gone
timer_delete_Keep(kt, h) == kt

timer_delete(kt, h) == IF kt[h].live THEN [kt EXCEPT ![h] = NoKTimer] ELSE kt

\* timer_settime: an it_value of zero disarms the timer
timer_settime(kt, h, value, interval) ==
    IF kt[h].live
    THEN [kt EXCEPT ![h].armed = (value # 0), ![h].interval = interval]
    ELSE kt

\* the creation whose timer was deleted is marked
MarkDeleted(gs, kt, h) ==
    IF kt[h].live THEN [gs EXCEPT ![kt[h].gen].deleted = TRUE] ELSE gs

\* the range test of the three functions
InRange_ZeroAllowed(i) == (i >= 0) /\ (i < MAX_TIMERS)

InRange(i) == (i > 0) /\ (i < MAX_TIMERS)

\* DeleteTimer: the kernel timers, the creations and the status after it
DeleteTimer(kt, gs, i) ==
    IF InRange(i)
    THEN [kt |-> timer_delete(kt, timers[i]),
          gs |-> MarkDeleted(gs, kt, timers[i]),
          result |-> IF kt[timers[i]].live THEN EOK ELSE "EINVAL"]
    ELSE [kt |-> kt, gs |-> gs, result |-> "ENOENT"]

\* timerID = &timers[id]: timer_create writes the handle into the slot
StoreHandle_Local(tab, i, h) == tab

StoreHandle(tab, i, h) == [tab EXCEPT ![i] = h]

\* the body CreateTimer and CreateTick share: value and interval are the
\* it_value and it_interval given to timer_settime. ok: timer_create
\* succeeded and wrote the handle h (of no timer of the process) to the
\* slot; otherwise the slot keeps what it held.
InstallTimer(i, value, interval, ok, h) ==
    IF InRange(i)
    THEN   LET occupied == timers[i] # 0
               d   == DeleteTimer(ktimers, gens, i)
               kt1 == IF occupied THEN d.kt ELSE ktimers
               gs1 == IF occupied THEN d.gs ELSE gens
               g   == Len(gs1) + 1
               kt2 == IF ok
                      THEN [kt1 EXCEPT ![h] =
                              [live |-> TRUE, sival |-> i, armed |-> FALSE,
                               interval |-> 0, gen |-> g]]
                      ELSE kt1
               gs2 == IF ok
                      THEN Append(gs1, [id |-> i, fired |-> 0,
                                        cancelled |-> "no",
                                        deleted |-> FALSE])
                      ELSE gs1
               tab == IF ok THEN StoreHandle(timers, i, h) ELSE timers
           IN
           /\ IF ok THEN ~kt1[h].live ELSE h = 0
           /\ timers' = tab
           /\ ktimers' = timer_settime(kt2, tab[i], value, interval)
           /\ gens' = gs2
           /\ tresult' = EOK
    ELSE /\ tresult' = "ENOENT"
         /\ UNCHANGED <<timers, ktimers, gens>>

CreateTimer(i, timeoutms, ok, h) == InstallTimer(i, timeoutms, 0, ok, h)

CreateTick(i, timeoutms, ok, h) ==
    InstallTimer(i, timeoutms, timeoutms, ok, h)

\* --------------------------------------------------- timer statements
\* timer_statement: the node the parser builds for the statement text
TimerStatement(text, number, interval) ==
    [operation |-> CASE text = "create timer" -> "VA_CREATE_TIMER"
                     [] text = "create tick" /\ interval = "number"
                                             -> "VA_CREATE_TICK"
                     [] text = "create tick" /\ interval = "identifier"
                                             -> "VA_CREATE_TIMER"
                     [] OTHER                -> "VA_DELETE_TIMER",
     left |-> number, right |-> interval, text |-> text]

TimerStatements ==
    { TimerStatement(t, n, iv) : t \in {"create timer", "create tick"},
                                 n \in TimerArgs,
                                 iv \in {"number", "identifier"} }
    \cup { TimerStatement("delete timer", n, "NULL") : n \in TimerArgs }

\* the most recent creation for timer i, 0 when there is none
Latest(gs, i) ==
    IF \E g \in 1..Len(gs) : gs[g].id = i
    THEN CHOOSE g \in 1..Len(gs) :
            gs[g].id = i /\ \A k \in (g + 1)..Len(gs) : gs[k].id # i
    ELSE 0

\* `delete timer i` comes after the most recent creation for i, which has
\* not fired: the creation is marked, with whether its timer was armed
MarkCancelled(gs, kt, i) ==
    LET g == Latest(gs, i)
        h == timers[i] IN
    IF g # 0 /\ gs[g].fired = 0
    THEN [gs EXCEPT ![g].cancelled =
            IF kt[h].live /\ kt[h].gen = g /\ kt[h].armed
            THEN "armed" ELSE "unarmed"]
    ELSE gs

\* the function the action library calls for a timer statement
TimerFunction(st) ==
    CASE st.operation = "VA_CREATE_TIMER" -> "CreateTimer"
      [] st.operation = "VA_CREATE_TICK"  -> "CreateTick"
      [] OTHER                            -> "DeleteTimer"

\* the statement st is executed with ms the value of its interval
\* operand; ok: a timer was created for it (timer_create is not reached
\* with an id out of range)
Called(st, ms, ok) ==
    /\ call.n < MaxCalls
    /\ call' = [st |-> st, ms |-> ms, ok |-> ok, n |-> call.n + 1]
    /\ UNCHANGED <<engineVars, mainVars>>

ExecCreateTimer ==
    \E st \in TimerStatements, ms \in Intervals,
       ok \in BOOLEAN, h \in Handles :
       /\ TimerFunction(st) = "CreateTimer"
       /\ InRange(st.left) \/ (~ok /\ h = 0)
       /\ Called(st, ms, ok /\ InRange(st.left))
       /\ CreateTimer(st.left, ms, ok, h)

ExecCreateTick ==
    \E st \in TimerStatements, ms \in Intervals,
       ok \in BOOLEAN, h \in Handles :
       /\ TimerFunction(st) = "CreateTick"
       /\ InRange(st.left) \/ (~ok /\ h = 0)
       /\ Called(st, ms, ok /\ InRange(st.left))
       /\ CreateTick(st.left, ms, ok, h)

ExecDeleteTimer ==
    \E st \in TimerStatements :
       /\ TimerFunction(st) = "DeleteTimer"
       /\ Called(st, 0, FALSE)
       /\ LET d == DeleteTimer(ktimers, gens, st.left) IN
            /\ ktimers' = d.kt
            /\ gens' = IF InRange(st.left)
                       THEN MarkCancelled(d.gs, ktimers, st.left)
                       ELSE d.gs
            /\ tresult' = d.result
            /\ UNCHANGED timers

\* an armed timer expires: the process is sent TIMER_NOTIFICATION with the
\* timer's sival; a timer without interval is disarmed
TimerExpires ==
    \E h \in Handles :
       /\ ktimers[h].live
       /\ ktimers[h].armed
       /\ gens[ktimers[h].gen].fired < MaxFired
       /\ gens' = [gens EXCEPT ![ktimers[h].gen].fired = @ + 1]
       /\ ktimers' = IF ktimers[h].interval = 0
                     THEN [ktimers EXCEPT ![h].armed = FALSE]
                     ELSE ktimers
       /\ UNCHANGED <<timers, call, tresult>>
       /\ UNCHANGED <<engineVars, mainVars>>

\* static timer_t timers[MAX_TIMERS] = {0}, and a process without timers
TimerInitially ==
    /\ timers = [i \in Slots |-> 0]
    /\ ktimers = [h \in Handles |-> NoKTimer]
    /\ gens = << >>
    /\ call = [st |-> TimerStatement("delete timer", 0, "NULL"),
               ms |-> 0, ok |-> FALSE, n |-> 0]
    /\ tresult = EOK

\* ------------------------------------------------ the definition text
\* the handle of an identifier the variable server does not know
VAR_INVALID == 0

\* `/h == 1 || 0 == /k`: two references to system variables, the second
\* one in the right subtree
GTwo(h, k) ==
    CreateVariable("VA_OR",
                   CreateVariable("VA_EQUALS", NewIdentifier(h), NewNumber(1)),
                   CreateVariable("VA_EQUALS", NewNumber(0), NewIdentifier(k)))

\* the state definitions of a text, as state_body builds them: the entry
\* and the exit block are always written, with statements (e: "STMTS") or
\* without
TextA(e) ==
    << State("init", e, << Transition("a", GTwo(1, 1)) >>, "EMPTY"),
       State("a", "EMPTY",
             << Transition("init", GVar(1)), Transition("init", GTimer(1)) >>,
             e) >>

TextB(e) ==
    << State("init", e,
             << Transition("a", GVar(VAR_INVALID)),
                Transition("a", GMixed(1, 2)) >>,
             e),
       State("a", e, << Transition("init", GTwo(2, 1)) >>, "EMPTY") >>

StateTexts ==
    UNION { {TextA(e), TextB(e), Tail(TextA(e))} : e \in {"EMPTY", "STMTS"} }

\* a definition text: its state definitions and the place of its syntax
\* error: 0 for none, k for an error in the exit block of the k-th state
\* definition, Len + 1 for an error after the closing brace of the machine
Sources ==
    UNION { { [states |-> t, err |-> k] : k \in 0..(Len(t) + 1) } :
            t \in StateTexts }

NoSource == [states |-> << >>, err |-> 0]

\* the statuses of VAR_Notify
NotifyResults == {EOK, "ENOTSUP"}

\* RequestNotifications: the handles VAR_Notify is called with, in the
\* order of the calls (left subtree, right subtree, the node itself)
RECURSIVE RequestNotifications(_)

\* the walk that leaves out the right subtree
RequestNotifications_LeftOnly(pVariable) ==
    IF IsNull(pVariable) THEN << >>
    ELSE RequestNotifications(pVariable.left)
         \o ( IF /\ pVariable.operation = "VA_SYSVAR"
                 /\ pVariable.hVar # VAR_INVALID
              THEN << pVariable.hVar >> ELSE << >> )

RequestNotifications(pVariable) ==
    IF IsNull(pVariable) THEN << >>
    ELSE RequestNotifications(pVariable.left)
         \o RequestNotifications(pVariable.right)
         \o ( IF /\ pVariable.operation = "VA_SYSVAR"
                 /\ pVariable.hVar # VAR_INVALID
              THEN << pVariable.hVar >> ELSE << >> )

\* main after calloc and VARSERVER_Open: the handle is open, yyparse has
\* not returned (it returns 0, or 1 after yyerror), the process runs
Running ==
    [hVarServer |-> "open", freed |-> FALSE, yyparse |-> "running",
     status |-> "running"]

\* a process of which only the engine or the timer manager is looked at
MainIdle ==
    /\ src = NoSource
    /\ stack = << >>
    /\ translist = << >>
    /\ notified = << >>
    /\ blocked = FALSE
    /\ pending = << >>
    /\ skipped = << >>
    /\ proc = Running
    /\ store = << >>

\* --------------------------------------------------------------- Init
Init ==
    /\ machine \in Machines
    /\ pCurrentState = 0
    /\ activeTimer = 0
    /\ pc = "start"
    /\ signum = NO_SIGNAL
    /\ id = 0
    /\ pState = 0
    /\ trans = 0
    /\ result = "EINVAL"
    /\ log = << >>
    /\ TimerInitially
    /\ MainIdle

\* ------------------------------------------------------ RunStateMachine
\* the entry block of a state has statements to run
HasEntryStatements(name) ==
    /\ FindState(machine, name) # 0
    /\ machine[FindState(machine, name)].entry = "STMTS"

\* the loop is begun in init without EnterState
RunStateMachine_SkipEntry(r) ==
    /\ pc = "start"
    /\ pCurrentState' = FindState(machine, "init")
    /\ result' = IF FindState(machine, "init") # 0 THEN EOK ELSE "ENOENT"
    /\ log' = log
    /\ pc' = IF result' = EOK THEN "wait" ELSE "returned"
    /\ UNCHANGED <<machine, activeTimer, signum, id, pState, trans>>

\* EnterState( "init" ), then the loop or the return; r is the status of
\* init's entry block
RunStateMachine_with(r) ==
    /\ pc = "start"
    /\ HasEntryStatements("init") \/ r = EOK
    /\ EnterState("init", 0, r)
    /\ pc' = IF result' = EOK THEN "wait" ELSE "returned"
    /\ UNCHANGED <<machine, activeTimer, signum, id, pState, trans>>

RunStateMachine ==
    /\ \E r \in LibResults : RunStateMachine_with(r)
    /\ UNCHANGED <<timerVars, mainVars>>

\* waitSignal: the next signal and its payload
waitSignal ==
    /\ pc = "wait"
    /\ \E sig \in Signals, i \in Ids :
          /\ signum' = sig
          /\ id' = i
    /\ pc' = "handle"
    /\ UNCHANGED <<machine, pCurrentState, activeTimer, pState, trans,
                   result, log>>
    /\ UNCHANGED <<timerVars, mainVars>>

\* ------------------------------------------------------- HandleSignal
\* the active timer register after HandleSignal's first test: SetTimer( id )
\* is called for a timer notification only
SetTimer_AnySignal(cur, sig, ident) == ident

\* the register is left alone
SetTimer_Never(cur, sig, ident) == cur

SetTimer(cur, sig, ident) ==
    IF sig = TIMER_NOTIFICATION THEN ident ELSE cur

\* "assume we cannot find the signal in the state"
AssumeNotFound_Unassigned == "EINVAL"

AssumeNotFound == "ENOENT"

HandleSignal_begin ==
    /\ pc = "handle"
    /\ activeTimer' = SetTimer(activeTimer, signum, id)
    /\ pState' = pCurrentState
    /\ log' = << >>
    /\ IF pCurrentState # 0
       THEN /\ result' = AssumeNotFound
            /\ trans' = 1
            /\ pc' = "check"
       ELSE /\ result' = "ENOTRECOVERABLE"
            /\ trans' = 0
            /\ pc' = "end"
    /\ UNCHANGED <<machine, pCurrentState, signum, id>>
    /\ UNCHANGED <<timerVars, mainVars>>

\* trans is NULL: past the end of the list of pState
TransIsNull == trans = 0 \/ trans > Len(machine[pState].trans)

CurTrans == machine[pState].trans[trans]

\* the while loop goes on unless the transition returned EOK
BreakSearch(res) == res = EOK

\* what HandleSignal does with the status CheckTransition returned
Returned(res) ==
    /\ result' = res
    /\ IF BreakSearch(res)
       THEN /\ pc' = "end"
            /\ trans' = trans
       ELSE /\ pc' = "check"
            /\ trans' = trans + 1

\* CheckTransition up to CheckInConditions
CheckTransition_conditions ==
    /\ pc = "check"
    /\ ~TransIsNull
    /\ LET res == CheckInConditions(CurTrans.pVariable, signum, id) IN
         /\ log' = log \o << Step("CheckInConditions", pCurrentState,
                                  pCurrentState, trans, res) >>
         /\ IF res = EOK
            THEN /\ pc' = "expr"
                 /\ UNCHANGED <<trans, result>>
            ELSE Returned(res)
    /\ UNCHANGED <<machine, pCurrentState, activeTimer, signum, id, pState>>
    /\ UNCHANGED <<timerVars, mainVars>>

\* CheckTransition: ProcessExpr and the test of the guard's value; status
\* is what ProcessExpr returns, vals are the values of the variables
CheckTransition_ProcessExpr_with(status, vals) ==
    /\ pc = "expr"
    /\ LET res == IF status = EOK
                  THEN ( IF Eval(CurTrans.pVariable, vals, activeTimer) # 0
                         THEN EOK ELSE "ENOTSUP" )
                  ELSE status
           op == IF status = EOK THEN "ProcessExpr" ELSE "ProcessExprFailed"
       IN
       /\ log' = log \o << Step(op, pCurrentState, pCurrentState,
                                trans, res) >>
       /\ IF res = EOK
          THEN /\ pc' = "exit"
               /\ UNCHANGED <<trans, result>>
          ELSE Returned(res)
    /\ UNCHANGED <<machine, pCurrentState, activeTimer, signum, id, pState>>

CheckTransition_ProcessExpr ==
    /\ \E status \in LibResults, vals \in [Ids -> {0, 1}] :
          CheckTransition_ProcessExpr_with(status, vals)
    /\ UNCHANGED <<timerVars, mainVars>>

\* CheckTransition enters the target only after ExitState returned EOK
MayEnter_Always(res) == TRUE

MayEnter_Never(res) == FALSE

MayEnter(res) == res = EOK

\* ExitState: the exit block of the current state; r is the status of
\* its statements
ExitState_with(r) ==
    /\ pc = "exit"
    /\ LET kind == machine[pCurrentState].exit
           res == BlockResult(kind, r) IN
       /\ kind = "STMTS" \/ r = EOK
       /\ log' = log \o << Step(IF kind = "NULL" THEN "noexit" ELSE "exit",
                                pCurrentState, pCurrentState, trans, res) >>
       /\ IF MayEnter(res)
          THEN /\ pc' = "enter"
               /\ UNCHANGED trans
               /\ result' = res
          ELSE Returned(res)
    /\ UNCHANGED <<machine, pCurrentState, activeTimer, signum, id, pState>>

ExitState ==
    /\ \E r \in LibResults : ExitState_with(r)
    /\ UNCHANGED <<timerVars, mainVars>>

\* CheckTransition: EnterState( targetState ); r is the status of the
\* target's entry block
CheckTransition_EnterState_with(r) ==
    /\ pc = "enter"
    /\ HasEntryStatements(CurTrans.statename) \/ r = EOK
    /\ EnterState(CurTrans.statename, trans, r)
    /\ IF BreakSearch(result')
       THEN /\ pc' = "end"
            /\ trans' = trans
       ELSE /\ pc' = "check"
            /\ trans' = trans + 1
    /\ UNCHANGED <<machine, activeTimer, signum, id, pState>>

CheckTransition_EnterState ==
    /\ \E r \in LibResults : CheckTransition_EnterState_with(r)
    /\ UNCHANGED <<timerVars, mainVars>>

\* RunStateMachine's while( true ): whatever HandleSignal returned, the
\* next thing is waitSignal
AfterHandleSignal_StopOnError(res) ==
    IF res \in {EOK, "ENOENT", "ENOTSUP"} THEN "wait" ELSE "returned"

AfterHandleSignal(res) == "wait"

\* the end of HandleSignal: the active timer is cleared
HandleSignal_end ==
    /\ \/ pc = "end"
       \/ pc = "check" /\ TransIsNull
    /\ activeTimer' = 0
    /\ pc' = AfterHandleSignal(result)
    /\ UNCHANGED <<machine, pCurrentState, signum, id, pState, trans,
                   result, log>>
    /\ UNCHANGED <<timerVars, mainVars>>

Next ==
    \/ RunStateMachine
    \/ waitSignal
    \/ HandleSignal_begin
    \/ CheckTransition_conditions
    \/ CheckTransition_ProcessExpr
    \/ ExitState
    \/ CheckTransition_EnterState
    \/ HandleSignal_end

Spec == Init /\ [][Next]_vars

\* the process is scheduled: a step of HandleSignal that can be taken is
\* taken (library calls return); nothing makes a signal arrive
HandleSignalStep ==
    \/ HandleSignal_begin
    \/ CheckTransition_conditions
    \/ CheckTransition_ProcessExpr
    \/ ExitState
    \/ CheckTransition_EnterState
    \/ HandleSignal_end

\* the machines whose guards use timer 1 and variable 1: which number a
\* guard names has no part in whether a dispatch comes to its end
FairInit ==
    /\ Init
    /\ machine \in WithInitOver({<<1, 1>>})

FairSpec == FairInit /\ [][Next]_vars /\ WF_vars(HandleSignalStep)

\* the timer manager alone, driven by the timer statements of a block
TimerInit ==
    /\ machine = << >>
    /\ pCurrentState = 0
    /\ activeTimer = 0
    /\ pc = "start"
    /\ signum = NO_SIGNAL
    /\ id = 0
    /\ pState = 0
    /\ trans = 0
    /\ result = "EINVAL"
    /\ log = << >>
    /\ TimerInitially
    /\ MainIdle

TimerNext ==
    \/ ExecCreateTimer
    \/ ExecCreateTick
    \/ ExecDeleteTimer
    \/ TimerExpires

TimerSpec == TimerInit /\ [][TimerNext]_vars

\* ------------------------------------------------------------- yyparse
\* the state definition being parsed, past the last one when all are done
CurState == Len(stack) + 1

InStateDefinition == CurState <= Len(src.states)

\* the transition rule puts the transition with its guard in the list
\* whatever RequestNotifications returned
Installed_IfNotified(t, rcs) ==
    IF \A k \in DOMAIN rcs : rcs[k] = EOK
    THEN t ELSE [t EXCEPT !.pVariable = NullVar]

Installed(t, rcs) == t

\* transition : id COLON expression
transition ==
    /\ pc = "parse"
    /\ InStateDefinition
    /\ Len(translist) < Len(src.states[CurState].trans)
    /\ LET n == Len(translist) + 1
           t == src.states[CurState].trans[n]
           reqs == RequestNotifications(t.pVariable) IN
       \E rcs \in [1..Len(reqs) -> NotifyResults] :
          /\ notified' = notified \o
                [k \in 1..Len(reqs) |->
                   [hVar |-> reqs[k], rc |-> rcs[k], st |-> CurState,
                    tr |-> n]]
          /\ translist' = Append(translist, Installed(t, rcs))
    /\ UNCHANGED <<store, src, stack, blocked, pending, skipped, proc>>
    /\ UNCHANGED <<engineVars, timerVars>>

\* the transitions of the state are all in: exit, state_body and
\* state_definition build the State and leave it on the parser's stack
state_definition ==
    /\ pc = "parse"
    /\ InStateDefinition
    /\ Len(translist) >= Len(src.states[CurState].trans)
    /\ src.err # CurState
    /\ stack' = Append(stack,
                       [src.states[CurState] EXCEPT !.trans = translist])
    /\ translist' = << >>
    /\ UNCHANGED <<store, src, notified, blocked, pending, skipped, proc>>
    /\ UNCHANGED <<engineVars, timerVars>>

\* the statemachine rule, reduced at the closing brace: the states on the
\* stack become the state list. yyparse then accepts, or meets text after
\* the brace and calls yyerror; ParseStateMachine returns either way.
statemachine ==
    /\ pc = "parse"
    /\ ~InStateDefinition
    /\ machine' = stack
    /\ proc' = [proc EXCEPT !.yyparse =
                   IF src.err = Len(src.states) + 1 THEN "1" ELSE "0"]
    /\ pc' = "start"
    /\ UNCHANGED <<pCurrentState, activeTimer, signum, id, pState, trans,
                   result, log>>
    /\ UNCHANGED <<store, parserVars, blocked, pending, skipped>>
    /\ UNCHANGED timerVars

\* a syntax error inside a state definition: the grammar has no error
\* rule, so yyparse calls yyerror and returns 1 with the states reduced so
\* far left on its stack
yyerror ==
    /\ pc = "parse"
    /\ InStateDefinition
    /\ Len(translist) >= Len(src.states[CurState].trans)
    /\ src.err = CurState
    /\ proc' = [proc EXCEPT !.yyparse = "1"]
    /\ pc' = "start"
    /\ UNCHANGED <<machine, pCurrentState, activeTimer, signum, id, pState,
                   trans, result, log>>
    /\ UNCHANGED <<store, parserVars, blocked, pending, skipped>>
    /\ UNCHANGED timerVars

\* ------------------------------------------------- signals of the process
\* the process has not ended
Alive == proc.status = "running"

\* pending signals the model keeps
MaxPending == 2

\* the handles a VAR_Notify call succeeded for
Subscribed ==
    { notified[k].hVar : k \in {j \in 1..Len(notified) :
                                  notified[j].rc = EOK} }

\* the timer numbers the guards of the definition wait for
GuardTimers ==
    { n.ui : n \in
        { x \in UNION { UNION { NodesOf(src.states[s].trans[t].pVariable) :
                                t \in 1..Len(src.states[s].trans) } :
                        s \in 1..Len(src.states) } :
          x.operation = "VA_TIMER" } }

\* init's entry block had statements and has been run: the timers it
\* creates can expire
TimerMayExist ==
    /\ pc \notin {"parse", "start"}
    /\ FindState(machine, "init") # 0
    /\ machine[FindState(machine, "init")].entry = "STMTS"

\* everything of the engine but its position
engineData ==
    <<machine, pCurrentState, activeTimer, signum, id, pState, trans,
      result, log>>

\* a signal for the process: queued when the signal is blocked; otherwise
\* nothing waits for it or catches it, and the default action of a
\* real-time signal ends the process
Deliver(sig, i) ==
    IF blocked
    THEN /\ Len(pending) < MaxPending
         /\ pending' = Append(pending, [sig |-> sig, id |-> i])
         /\ UNCHANGED <<pc, proc>>
    ELSE /\ pc' = "killed"
         /\ proc' = [proc EXCEPT !.status = sig]
         /\ UNCHANGED pending

\* another process writes a variable the variable server notifies this
\* process of
VarModified ==
    /\ Alive
    /\ \E h \in Subscribed : Deliver(VAR_NOTIFICATION, h)
    /\ UNCHANGED <<store, parserVars, blocked, skipped>>
    /\ UNCHANGED <<engineData, timerVars>>

\* a timer expires; while its signal is pending a further expiration only
\* counts as an overrun
TimerSignal ==
    /\ Alive
    /\ TimerMayExist
    /\ \E i \in GuardTimers :
          /\ \A k \in 1..Len(pending) :
                ~(pending[k].sig = TIMER_NOTIFICATION /\ pending[k].id = i)
          /\ Deliver(TIMER_NOTIFICATION, i)
    /\ UNCHANGED <<store, parserVars, blocked, skipped>>
    /\ UNCHANGED <<engineData, timerVars>>

\* waitSignal: sigprocmask( SIG_BLOCK ) of the two signals; only the first
\* call changes the mask
waitSignal_sigprocmask ==
    /\ pc = "wait"
    /\ ~blocked
    /\ blocked' = TRUE
    /\ UNCHANGED <<store, parserVars, pending, skipped, proc>>
    /\ UNCHANGED <<engineVars, timerVars>>

\* sigwaitinfo takes the pending signal with the lowest number, and of
\* the signals with that number the one queued first
NextPending_Last(q) == Len(q)

NextPending(q) ==
    IF \E k \in 1..Len(q) : q[k].sig = TIMER_NOTIFICATION
    THEN CHOOSE k \in 1..Len(q) :
            /\ q[k].sig = TIMER_NOTIFICATION
            /\ \A j \in 1..(k - 1) : q[j].sig # TIMER_NOTIFICATION
    ELSE 1

\* waitSignal: sigwaitinfo returns with a pending signal and its payload
waitSignal_sigwaitinfo ==
    /\ pc = "wait"
    /\ blocked
    /\ pending # << >>
    /\ LET k == NextPending(pending) IN
         /\ signum' = pending[k].sig
         /\ id' = pending[k].id
         /\ skipped' = SubSeq(pending, 1, k - 1)
         /\ pending' = SubSeq(pending, 1, k - 1)
                          \o SubSeq(pending, k + 1, Len(pending))
    /\ pc' = "handle"
    /\ UNCHANGED <<machine, pCurrentState, activeTimer, pState, trans,
                   result, log>>
    /\ UNCHANGED <<store, parserVars, blocked, proc>>
    /\ UNCHANGED timerVars

\* what the process does on SIGINT or SIGTERM: main never calls
\* SetupTerminationHandler, so the default action is in place
Disposition(sig) == "SIG_DFL"

TerminationHandler(p) ==
    [p EXCEPT !.hVarServer = "closed", !.freed = TRUE, !.status = "exit 1"]

\* SIGINT or SIGTERM arrives
TerminationSignal ==
    /\ Alive
    /\ \E sig \in {"SIGINT", "SIGTERM"} :
          proc' = IF Disposition(sig) = "TerminationHandler"
                  THEN TerminationHandler(proc)
                  ELSE [proc EXCEPT !.status = sig]
    /\ pc' = "killed"
    /\ UNCHANGED <<store, parserVars, blocked, pending, skipped>>
    /\ UNCHANGED <<engineData, timerVars>>

\* main after RunStateMachine has returned: VARSERVER_Close, return 0
main_return ==
    /\ pc = "returned"
    /\ Alive
    /\ proc' = [proc EXCEPT !.hVarServer = "closed", !.status = "exit 0"]
    /\ pc' = "exited"
    /\ UNCHANGED <<store, parserVars, blocked, pending, skipped>>
    /\ UNCHANGED <<engineData, timerVars>>

\* main from ParseStateMachine on, with the signals the process receives
MainInit ==
    /\ src \in Sources
    /\ machine = << >>
    /\ pCurrentState = 0
    /\ activeTimer = 0
    /\ pc = "parse"
    /\ signum = NO_SIGNAL
    /\ id = 0
    /\ pState = 0
    /\ trans = 0
    /\ result = "EINVAL"
    /\ log = << >>
    /\ TimerInitially
    /\ stack = << >>
    /\ translist = << >>
    /\ notified = << >>
    /\ blocked = FALSE
    /\ pending = << >>
    /\ skipped = << >>
    /\ proc = Running
    /\ store = << >>

MainNext ==
    \/ transition
    \/ state_definition
    \/ statemachine
    \/ yyerror
    \/ RunStateMachine
    \/ waitSignal_sigprocmask
    \/ waitSignal_sigwaitinfo
    \/ HandleSignal_begin
    \/ CheckTransition_conditions
    \/ CheckTransition_ProcessExpr
    \/ ExitState
    \/ CheckTransition_EnterState
    \/ HandleSignal_end
    \/ VarModified
    \/ TimerSignal
    \/ TerminationSignal
    \/ main_return

MainSpec == MainInit /\ [][MainNext]_vars

\* ------------------------------------------------- the example machines
\* the variables the examples name; the handle of a variable is its place
\* in the variable server's table
VarNames ==
    << "/sys/test/a", "/sys/alarm/armed", "/sys/alarm/siren",
       "/sys/alarm/activate", "/sys/alarm/trigger", "/sys/alarm/arm_delay",
       "armdelay" >>

VarHandle(name) == CHOOSE h \in 1..Len(VarNames) : VarNames[h] = name

Identifier(name) == NewIdentifier(VarHandle(name))

\* the statements of the examples' blocks
Assign(name, e) ==
    [operation |-> "VA_ASSIGN", hVar |-> VarHandle(name), left |-> 0,
     right |-> e]

CreateTimerStatement(n, e) ==
    [operation |-> "VA_CREATE_TIMER", hVar |-> 0, left |-> n, right |-> e]

DeleteTimerStatement(n) ==
    [operation |-> "VA_DELETE_TIMER", hVar |-> 0, left |-> n,
     right |-> NullVar]

\* a state with the statements of its entry and exit blocks
BlockOf(stmts) == IF stmts = << >> THEN "EMPTY" ELSE "STMTS"

StateWith(name, entryStmts, tl, exitStmts) ==
    [id |-> name, entry |-> BlockOf(entryStmts), trans |-> tl,
     exit |-> BlockOf(exitStmts), entryStmts |-> entryStmts,
     exitStmts |-> exitStmts]

\* `/name == n`
VarEquals(name, n) ==
    CreateVariable("VA_EQUALS", Identifier(name), NewNumber(n))

\* test/example1.sm
Example1 ==
    << StateWith("init",
          << CreateTimerStatement(1, NewNumber(2000)) >>,
          << Transition("on", TimerExpression(1)) >>,
          << >>),
       StateWith("on",
          << CreateTimerStatement(1, NewNumber(2000)),
             Assign("/sys/test/a", NewNumber(1)) >>,
          << Transition("off", TimerExpression(1)) >>,
          << DeleteTimerStatement(1) >>),
       StateWith("off",
          << CreateTimerStatement(1, NewNumber(4000)),
             Assign("/sys/test/a", NewNumber(0)) >>,
          << Transition("on", TimerExpression(1)) >>,
          << DeleteTimerStatement(1) >>) >>

\* test/example2.sm
Example2 ==
    << StateWith("init",
          << Assign("/sys/alarm/armed", NewNumber(0)),
             CreateTimerStatement(1, NewNumber(100)) >>,
          << Transition("disarmed", TimerExpression(1)) >>,
          << DeleteTimerStatement(1) >>),
       StateWith("disarmed",
          << Assign("/sys/alarm/siren", NewNumber(0)),
             Assign("/sys/alarm/armed", NewNumber(0)) >>,
          << Transition("arming", VarEquals("/sys/alarm/activate", 1)) >>,
          << >>),
       StateWith("arming",
          << Assign("armdelay",
                    CreateVariable("VA_MUL",
                                   Identifier("/sys/alarm/arm_delay"),
                                   NewNumber(1000))),
             CreateTimerStatement(1, Identifier("armdelay")) >>,
          << Transition("armed", TimerExpression(1)),
             Transition("disarmed", VarEquals("/sys/alarm/activate", 0)) >>,
          << DeleteTimerStatement(1) >>),
       StateWith("armed",
          << Assign("/sys/alarm/armed", NewNumber(1)) >>,
          << Transition("alarm", VarEquals("/sys/alarm/trigger", 1)),
             Transition("disarmed", VarEquals("/sys/alarm/activate", 0)) >>,
          << >>),
       StateWith("alarm",
          << Assign("/sys/alarm/siren", NewNumber(1)),
             CreateTimerStatement(1, NewNumber(60000)) >>,
          << Transition("armed", TimerExpression(1)),
             Transition("disarmed", VarEquals("/sys/alarm/activate", 0)) >>,
          << Assign("/sys/alarm/siren", NewNumber(0)),
             DeleteTimerStatement(1) >>) >>

\* ------------------------------------------------ execution of a block
\* what a block works on: the variables, the timers array, the timers of
\* the process and its pending signals; status is the status of the
\* statements so far, clash that a timer was created under a handle in use
Config ==
    [store |-> store, tab |-> timers, kt |-> ktimers, q |-> pending,
     status |-> EOK, clash |-> FALSE]

\* the pending signals after the timer with handle h was deleted: a
\* signal of that timer is dropped, or stays queued with no timer behind
\* it (the kernel decides which)
Forget(q, h, drop) ==
    LET OfTimer(e) == e.sig = TIMER_NOTIFICATION /\ e.h = h
        Other(e) == ~OfTimer(e) IN
    IF drop THEN SelectSeq(q, Other)
    ELSE [k \in 1..Len(q) |->
             IF OfTimer(q[k]) THEN [q[k] EXCEPT !.h = -1] ELSE q[k]]

\* one statement; h is the handle timer_create hands out
ExecStatement(st, c, h, drop) ==
    CASE st.operation = "VA_ASSIGN" ->
           [c EXCEPT !.store =
              [c.store EXCEPT ![st.hVar] = Eval(st.right, c.store, 0)]]
      [] st.operation = "VA_CREATE_TIMER" ->
           IF InRange(st.left)
           THEN LET old == c.tab[st.left]
                    occupied == old # 0
                    kt1 == IF occupied THEN timer_delete(c.kt, old) ELSE c.kt
                    q1 == IF occupied /\ c.kt[old].live
                          THEN Forget(c.q, old, drop) ELSE c.q
                    kt2 == [kt1 EXCEPT ![h] =
                              [live |-> TRUE, sival |-> st.left,
                               armed |-> FALSE, interval |-> 0, gen |-> 0]]
                    tab2 == StoreHandle(c.tab, st.left, h)
                IN [c EXCEPT !.kt = timer_settime(kt2, tab2[st.left],
                                       Eval(st.right, c.store, 0), 0),
                             !.tab = tab2,
                             !.q = q1,
                             !.clash = c.clash \/ kt1[h].live]
           ELSE [c EXCEPT !.status = "ENOENT"]
      [] OTHER ->
           IF InRange(st.left)
           THEN LET old == c.tab[st.left] IN
                [c EXCEPT !.kt = timer_delete(c.kt, old),
                          !.q = IF c.kt[old].live
                                THEN Forget(c.q, old, drop) ELSE c.q,
                          !.status = IF c.kt[old].live
                                     THEN c.status ELSE "EINVAL"]
           ELSE [c EXCEPT !.status = "ENOENT"]

\* the statements of a block in order, up to the first that fails
RECURSIVE ExecBlock(_, _, _, _)
ExecBlock(stmts, c, h, drop) ==
    IF stmts = << >> \/ c.status # EOK THEN c
    ELSE ExecBlock(Tail(stmts), ExecStatement(Head(stmts), c, h, drop),
                   h, drop)

\* the block has run
Effects(c) ==
    /\ ~c.clash
    /\ store' = c.store
    /\ timers' = c.tab
    /\ ktimers' = c.kt
    /\ pending' = c.q
    /\ UNCHANGED <<gens, call, tresult>>
    /\ UNCHANGED <<parserVars, blocked, skipped, proc>>

\* EnterState runs the entry block of the state it found
EntryStatements(name) ==
    IF FindState(machine, name) # 0
    THEN machine[FindState(machine, name)].entryStmts
    ELSE << >>

\* ExitState runs the exit block of the current state
ExitStatements_None == << >>

ExitStatements == machine[pCurrentState].exitStmts

\* RunStateMachine with init's entry block executed
RunStateMachine_exec ==
    \E h \in Handles, drop \in BOOLEAN :
       LET c == ExecBlock(EntryStatements("init"), Config, h, drop) IN
       /\ RunStateMachine_with(c.status)
       /\ Effects(c)

\* ProcessExpr evaluates the guard with the values of the variables
CheckTransition_ProcessExpr_exec ==
    /\ CheckTransition_ProcessExpr_with(EOK, store)
    /\ UNCHANGED <<timerVars, mainVars>>

\* ExitState with the exit block executed
ExitState_exec ==
    \E h \in Handles, drop \in BOOLEAN :
       LET c == ExecBlock(ExitStatements, Config, h, drop) IN
       /\ ExitState_with(c.status)
       /\ Effects(c)

\* EnterState( targetState ) with the entry block executed
CheckTransition_EnterState_exec ==
    \E h \in Handles, drop \in BOOLEAN :
       LET c == ExecBlock(EntryStatements(CurTrans.statename), Config, h,
                          drop) IN
       /\ pc = "enter"
       /\ CheckTransition_EnterState_with(c.status)
       /\ Effects(c)

\* an armed timer expires after the loop has begun to wait (the timeouts of
\* the examples are 100 ms and more): its signal is queued unless one is
\* pending already, and a timer without interval is disarmed
TimerExpires_queued ==
    \E h \in Handles :
       /\ ktimers[h].live
       /\ ktimers[h].armed
       /\ blocked
       /\ Len(pending) < MaxPending
       /\ \A k \in 1..Len(pending) :
             ~(pending[k].sig = TIMER_NOTIFICATION /\ pending[k].h = h)
       /\ pending' = Append(pending, [sig |-> TIMER_NOTIFICATION,
                                      id |-> ktimers[h].sival, h |-> h])
       /\ ktimers' = IF ktimers[h].interval = 0
                     THEN [ktimers EXCEPT ![h].armed = FALSE]
                     ELSE ktimers
       /\ UNCHANGED <<timers, gens, call, tresult>>
       /\ UNCHANGED <<store, parserVars, blocked, skipped, proc>>
       /\ UNCHANGED engineVars

\* the nodes of the guards of the machine
GuardNodes ==
    UNION { UNION { NodesOf(machine[s].trans[t].pVariable) :
                    t \in 1..Len(machine[s].trans) } :
            s \in 1..Len(machine) }

\* the variables the machine is notified of
GuardVars ==
    { n.hVar : n \in { x \in GuardNodes : x.operation = "VA_SYSVAR" } }

\* the variables other processes write: those of the guards, and the arming
\* delay
WrittenVars ==
    IF GuardVars = {} THEN {}
    ELSE GuardVars \cup {VarHandle("/sys/alarm/arm_delay")}

\* another process writes a variable; the process is notified if a guard
\* names the variable
VarWritten ==
    /\ Alive
    /\ \E h \in WrittenVars, v \in {0, 1} :
          /\ store[h] # v
          /\ store' = [store EXCEPT ![h] = v]
          /\ IF h \in GuardVars
             THEN Deliver(VAR_NOTIFICATION, h)
             ELSE UNCHANGED <<pc, proc, pending>>
    /\ UNCHANGED <<parserVars, blocked, skipped>>
    /\ UNCHANGED <<engineData, timerVars>>

\* the nodes of the statements of a block
RECURSIVE BlockNodes(_)
BlockNodes(stmts) ==
    IF stmts = << >> THEN {}
    ELSE ( IF Head(stmts).operation = "VA_ASSIGN"
           THEN {NewIdentifier(Head(stmts).hVar)}
                   \cup NodesOf(Head(stmts).right)
           ELSE NodesOf(Head(stmts).right) )
         \cup BlockNodes(Tail(stmts))

\* the variables of the variable server that the definition m names
ServerVars(m) ==
    { n.hVar :
        n \in { x \in UNION { BlockNodes(m[s].entryStmts)
                                \cup BlockNodes(m[s].exitStmts)
                                \cup UNION { NodesOf(m[s].trans[t].pVariable) :
                                             t \in 1..Len(m[s].trans) } :
                              s \in 1..Len(m) } :
                 x.operation = "VA_SYSVAR" } }
       \ {VarHandle("armdelay")}

\* a definition parsed without error with every VAR_Notify successful; the
\* variables it names have any value, its local variable is 0
ExampleInit(m) ==
    /\ machine = m
    /\ pCurrentState = 0
    /\ activeTimer = 0
    /\ pc = "start"
    /\ signum = NO_SIGNAL
    /\ id = 0
    /\ pState = 0
    /\ trans = 0
    /\ result = "EINVAL"
    /\ log = << >>
    /\ TimerInitially
    /\ src = NoSource
    /\ stack = << >>
    /\ translist = << >>
    /\ notified = << >>
    /\ blocked = FALSE
    /\ pending = << >>
    /\ skipped = << >>
    /\ proc = [Running EXCEPT !.yyparse = "0"]
    /\ store \in [1..Len(VarNames) -> {0, 1}]
    /\ \A h \in 1..Len(VarNames) : h \notin ServerVars(m) => store[h] = 0

\* the steps of the process
ProcessStep ==
    \/ RunStateMachine_exec
    \/ waitSignal_sigprocmask
    \/ waitSignal_sigwaitinfo
    \/ HandleSignal_begin
    \/ CheckTransition_conditions
    \/ CheckTransition_ProcessExpr_exec
    \/ ExitState_exec
    \/ CheckTransition_EnterState_exec
    \/ HandleSignal_end

\* example1: the process runs and its timers expire
Example1Next ==
    \/ RunStateMachine_exec
    \/ waitSignal_sigprocmask
    \/ waitSignal_sigwaitinfo
    \/ HandleSignal_begin
    \/ CheckTransition_conditions
    \/ CheckTransition_ProcessExpr_exec
    \/ ExitState_exec
    \/ CheckTransition_EnterState_exec
    \/ HandleSignal_end
    \/ TimerExpires_queued

Example1Spec ==
    /\ ExampleInit(Example1)
    /\ [][Example1Next]_vars
    /\ WF_vars(ProcessStep)
    /\ WF_vars(TimerExpires_queued)

\* example2: other processes write the variables of the alarm
Example2Next ==
    \/ RunStateMachine_exec
    \/ waitSignal_sigprocmask
    \/ waitSignal_sigwaitinfo
    \/ HandleSignal_begin
    \/ CheckTransition_conditions
    \/ CheckTransition_ProcessExpr_exec
    \/ ExitState_exec
    \/ CheckTransition_EnterState_exec
    \/ HandleSignal_end
    \/ TimerExpires_queued
    \/ VarWritten

Example2Spec == ExampleInit(Example2) /\ [][Example2Next]_vars

\* a definition that creates timer 1 again in the state it enters on a
\* variable event
Retimed ==
    << StateWith("init",
          << CreateTimerStatement(1, NewNumber(1000)) >>,
          << Transition("a", VarEquals("/sys/test/a", 1)),
             Transition("b", TimerExpression(1)) >>,
          << DeleteTimerStatement(1) >>),
       StateWith("a",
          << CreateTimerStatement(1, NewNumber(1000)) >>,
          << Transition("b", TimerExpression(1)) >>,
          << DeleteTimerStatement(1) >>),
       StateWith("b", << >>, << >>, << >>) >>

RetimedSpec == ExampleInit(Retimed) /\ [][Example2Next]_vars

\* ------------------------------------------------------------ properties
LogIdx == 1..Len(log)

\* number of steps of one kind in the log of the current dispatch
Count(op) == Cardinality({i \in LogIdx : log[i].op = op})

\* the guard of the tr-th transition of the state the event was taken in
GuardOf(tr) == machine[pState].trans[tr].pVariable

\* some node of the tree references the event (sig, ident)
References(v, sig, ident) ==
    \E n \in NodesOf(v) :
       \/ sig = TIMER_NOTIFICATION /\ n.operation = "VA_TIMER" /\ n.ui = ident
       \/ sig = VAR_NOTIFICATION /\ n.operation = "VA_SYSVAR" /\ n.hVar = ident

NoInitState == \A i \in 1..Len(machine) : machine[i].id # "init"

LoopEntered == pc \notin {"start", "returned"}

\* C1: in one dispatch the current state is switched at most once, and at
\* most one exit block and at most one entry block are executed.
C1_AtMostOneTransition ==
    /\ Count("switch") <= 1
    /\ Count("exit") <= 1
    /\ Count("entry") <= 1

\* C2: transitions are checked in definition order; the transition that
\* switches the state is the first one whose guard references the event and
\* is nonzero, and no transition after it is checked.
C2_FirstTrueGuardFires ==
    /\ \A i \in LogIdx :
          log[i].op = "CheckInConditions" =>
             log[i].tr = 1 + Cardinality({j \in 1..(i - 1) :
                                            log[j].op = "CheckInConditions"})
    /\ \A i \in LogIdx :
          (log[i].op = "switch" /\ log[i].tr >= 1) =>
             /\ \A j \in LogIdx :
                   (log[j].op = "ProcessExpr" /\ log[j].res = EOK)
                      => log[j].tr >= log[i].tr
             /\ \A j \in LogIdx : log[j].tr <= log[i].tr

\* C3: in a transition the exit block of the state being left has returned
\* EOK right before the current state is switched, and the entry block of
\* the target runs only after that switch.
C3_ExitBeforeEntry ==
    \A i \in LogIdx :
       /\ (log[i].op = "switch" /\ log[i].tr >= 1) =>
             /\ i > 1
             /\ log[i - 1].op = "exit"
             /\ log[i - 1].res = EOK
             /\ log[i - 1].tr = log[i].tr
             /\ log[i - 1].st = log[i].from
       /\ (log[i].op \in {"entry", "noentry"} /\ log[i].tr >= 1) =>
             /\ i > 1
             /\ log[i - 1].op = "switch"
             /\ log[i - 1].st = log[i].st
             /\ log[i - 1].tr = log[i].tr

\* a transition out of a state with an exit block of statements has fired
C3_Witness ==
    /\ pc = "wait"
    /\ \E i \in LogIdx :
          /\ log[i].op = "entry"
          /\ log[i].tr >= 1
          /\ log[i].res = EOK
          /\ machine[log[i].from].exit = "STMTS"

\* the dispatch ended with the tr-th transition of pState returning EOK
Fired(tr) ==
    /\ pc = "wait"
    /\ log # << >>
    /\ log[Len(log)].op = "entry"
    /\ log[Len(log)].res = EOK
    /\ log[Len(log)].tr = tr

\* C4: when a transition of S whose target is S fires, the exit block of S
\* and the entry block of S each ran exactly once in that dispatch, the
\* exit first, and S is the current state.
C4_SelfTransition ==
    \A tr \in 1..Len(log) :
       ( /\ Fired(tr)
         /\ machine[pState].trans[tr].statename = machine[pState].id ) =>
          /\ pCurrentState = pState
          /\ Cardinality({i \in LogIdx :
                log[i].op = "exit" /\ log[i].st = pState}) = 1
          /\ Cardinality({i \in LogIdx :
                log[i].op = "entry" /\ log[i].st = pState}) = 1

\* C5: when the target of a transition whose guard fired is not found, the
\* current state after the dispatch is the state before it and no entry
\* block was executed.
C5_MissingTargetKeepsState ==
    ( /\ pc = "wait"
      /\ \E i \in LogIdx : log[i].op = "notfound" /\ log[i].tr >= 1 ) =>
       /\ pCurrentState = pState
       /\ Count("entry") = 0

\* C6: when the target is not found no later transition is checked and the
\* dispatch returns ENOENT.
C6_MissingTargetEndsDispatch ==
    \A i \in LogIdx :
       (log[i].op = "notfound" /\ log[i].tr >= 1) =>
          /\ \A j \in LogIdx : log[j].tr <= log[i].tr
          /\ pc = "wait" => result = "ENOENT"

\* C7: without a state named init RunStateMachine returns without entering
\* the loop: no event is waited for or handled, no block runs and the
\* current state stays undefined.
C7_NoInitNoLoop ==
    NoInitState =>
       /\ ~LoopEntered
       /\ pCurrentState = 0
       /\ signum = NO_SIGNAL
       /\ \A i \in LogIdx : log[i].op = "notfound"

\* RunStateMachine has returned for a definition that has states, none init
C7_Witness ==
    /\ pc = "returned"
    /\ NoInitState
    /\ Len(machine) >= 1
    /\ result = "ENOENT"

\* C8: once the loop is entered the current state is never NULL and is a
\* state of the machine's state list.
C8_CurrentStateValid ==
    LoopEntered => pCurrentState \in 1..Len(machine)

\* a dispatch that met a missing target has ended
C8_Witness ==
    /\ pc = "wait"
    /\ \E i \in LogIdx : log[i].op = "notfound"
    /\ pCurrentState \in 1..Len(machine)

\* C9: CheckInConditions returns EOK exactly when some node of the guard
\* tree references the event, and ENOENT otherwise - for the guard it was
\* applied to and for every guard of the machine and every event.
C9_MatcherExact ==
    /\ \A i \in LogIdx :
          log[i].op = "CheckInConditions" =>
             /\ (log[i].res = EOK)
                   <=> References(GuardOf(log[i].tr), log[i].sig, log[i].ident)
             /\ log[i].res \in {EOK, "ENOENT"}
    /\ pc = "start" =>
       \A s \in 1..Len(machine) :
          \A t \in 1..Len(machine[s].trans) :
             \A sig \in Signals, i \in Ids :
                LET g == machine[s].trans[t].pVariable IN
                /\ (CheckInConditions(g, sig, i) = EOK) <=> References(g, sig, i)
                /\ (CheckInConditions(g, sig, i) = "ENOENT")
                      <=> ~References(g, sig, i)

\* a timer event was found in the right subtree of an OR guard
C9_Witness ==
    \E i \in LogIdx :
       /\ log[i].op = "CheckInConditions"
       /\ log[i].res = EOK
       /\ log[i].sig = TIMER_NOTIFICATION
       /\ GuardOf(log[i].tr).operation = "VA_OR"
       /\ ~References(GuardOf(log[i].tr).left, log[i].sig, log[i].ident)

\* C10: a guard is evaluated, and its transition taken, only when the guard
\* references the event: never a variable-only guard on a timer event, nor
\* a timer guard on a variable event or on another timer.
C10_SkippedUnlessReferenced ==
    \A i \in LogIdx :
       (log[i].tr >= 1 /\ log[i].op # "CheckInConditions") =>
          /\ References(GuardOf(log[i].tr), log[i].sig, log[i].ident)
          /\ log[i].sig = TIMER_NOTIFICATION =>
                \E n \in NodesOf(GuardOf(log[i].tr)) :
                   n.operation = "VA_TIMER" /\ n.ui = log[i].ident
          /\ log[i].sig = VAR_NOTIFICATION =>
                \E n \in NodesOf(GuardOf(log[i].tr)) :
                   n.operation = "VA_SYSVAR" /\ n.hVar = log[i].ident
          /\ log[i].sig # NO_SIGNAL

\* a variable-only guard was skipped on a timer event whose id equals the
\* handle of its variable and the number it compares with
C10_Witness ==
    /\ pc = "wait"
    /\ \E i \in LogIdx :
          /\ log[i].op = "CheckInConditions"
          /\ log[i].res = "ENOENT"
          /\ log[i].sig = TIMER_NOTIFICATION
          /\ \E n \in NodesOf(GuardOf(log[i].tr)) :
                n.operation = "VA_SYSVAR" /\ n.hVar = log[i].ident
          /\ \E n \in NodesOf(GuardOf(log[i].tr)) :
                n.operation = "VA_NUM" /\ n.ui = log[i].ident
          /\ \A j \in LogIdx : log[j].tr = log[i].tr => j = i

\* the event of the current dispatch is referenced by no guard of the state
\* it arrived in
NotReferenced ==
    /\ pState # 0
    /\ \A t \in 1..Len(machine[pState].trans) :
          ~References(machine[pState].trans[t].pVariable, signum, id)

\* HandleSignal is running
Handling == pc \in {"check", "expr", "exit", "enter", "end"}

\* C11: when no guard of the current state references the event, the
\* dispatch only runs the matcher (no guard is evaluated, no exit or entry
\* block runs), the current state is unchanged, and HandleSignal returns
\* ENOENT.
C11_UnreferencedEventIgnored ==
    ( /\ Handling \/ pc = "wait"
      /\ NotReferenced ) =>
       /\ \A i \in LogIdx :
             /\ log[i].op = "CheckInConditions"
             /\ log[i].res = "ENOENT"
       /\ pCurrentState = pState
       /\ (pc = "wait" \/ (pc = "check" /\ TransIsNull)) => result = "ENOENT"

\* a variable event that no guard of the state references was dispatched
\* through a state with several transitions
C11_Witness ==
    /\ pc = "wait"
    /\ NotReferenced
    /\ signum = VAR_NOTIFICATION
    /\ Len(machine[pState].trans) >= 2
    /\ Len(log) = Len(machine[pState].trans)
    /\ result = "ENOENT"

\* C12: the active timer register is the id of the fired timer throughout
\* the handling of a timer event, and 0 wherever the loop waits and
\* throughout the handling of a variable event, where every `timer N` term
\* with N in 1..254 therefore evaluates to 0.
C12_ActiveTimerRegister ==
    /\ (Handling /\ signum = TIMER_NOTIFICATION) => activeTimer = id
    /\ pc \in {"wait", "handle"} => activeTimer = 0
    /\ (Handling /\ signum = VAR_NOTIFICATION) => activeTimer = 0
    /\ (pc = "expr" /\ signum = VAR_NOTIFICATION) =>
          \A n \in 1..(MAX_TIMERS - 1) :
             Eval(TimerExpression(n), [h \in Ids |-> 0], activeTimer) = 0

\* in state a, reached by a transition, a guard with a `timer N` term is
\* being evaluated for a variable event
C12_Witness ==
    /\ pc = "expr"
    /\ signum = VAR_NOTIFICATION
    /\ machine[pState].id = "a"
    /\ \E n \in NodesOf(GuardOf(trans)) : n.operation = "VA_TIMER"
    /\ activeTimer = 0

\* C20: once the loop is entered it is never left, and after every event
\* taken from waitSignal the runtime comes back to wait for the next one,
\* whatever status the dispatch returned.
C20_LoopNeverExits ==
    /\ [][LoopEntered => LoopEntered']_vars
    /\ (pc = "handle") ~> (pc = "wait")

\* the loop waits again after a dispatch that returned an error status
C20_Witness ==
    /\ pc = "wait"
    /\ pState # 0
    /\ result \notin {EOK, "ENOENT", "ENOTSUP"}

\* the timers of the process that carry timer number i
LiveTimers(i) == {h \in Handles : ktimers[h].live /\ ktimers[h].sival = i}

\* the last statement executed called one of the three functions with a
\* timer number in [1,254]
CalledInRange == call.n >= 1 /\ call.st.left \in 1..254

C14_OneLiveTimerPerId ==
    /\ \A i \in Slots : Cardinality(LiveTimers(i)) <= 1
    /\ \A h \in Handles :
          (ktimers[h].live /\ ktimers[h].armed) =>
             ktimers[h].gen = Latest(gens, ktimers[h].sival)

\* C15: after `delete timer i` with i in [1,254], and until the next timer
\* statement, slot i is free and no timer that carries i can expire.
C15_DeleteFreesSlot ==
    ( /\ CalledInRange
      /\ TimerFunction(call.st) = "DeleteTimer" ) =>
       /\ timers[call.st.left] = 0
       /\ \A h \in LiveTimers(call.st.left) : ~ktimers[h].armed

C17_OneShotFreesSlot ==
    \A h \in Handles :
       ( /\ ktimers[h].live
         /\ ktimers[h].interval = 0
         /\ gens[ktimers[h].gen].fired >= 1
         /\ ktimers[h].gen = Latest(gens, ktimers[h].sival) ) =>
          /\ gens[ktimers[h].gen].fired = 1
          /\ timers[ktimers[h].sival] = 0

\* C18: after `create timer i 0` with i in [1,254] has created its timer,
\* and until the next timer statement, the event carrying i is on its way:
\* the timer of slot i has fired or is armed, so that its expiration will
\* be delivered.
C18_ZeroIntervalFires ==
    ( /\ CalledInRange
      /\ call.st.text = "create timer"
      /\ call.ms = 0
      /\ call.ok ) =>
       /\ ktimers[timers[call.st.left]].live
       /\ ktimers[timers[call.st.left]].sival = call.st.left
       /\ \/ ktimers[timers[call.st.left]].armed
          \/ gens[ktimers[timers[call.st.left]].gen].fired >= 1

\* C19: after a `create tick i T` statement, T > 0 a literal or the value
\* of a variable, has created its timer, and until the next timer
\* statement, the timer of slot i is periodic with interval T and stays
\* armed however often it has fired.
C19_TickIsPeriodic ==
    ( /\ CalledInRange
      /\ call.st.text = "create tick"
      /\ call.ms > 0
      /\ call.ok ) =>
       /\ ktimers[timers[call.st.left]].live
       /\ ktimers[timers[call.st.left]].sival = call.st.left
       /\ ktimers[timers[call.st.left]].interval = call.ms
       /\ ktimers[timers[call.st.left]].armed

\* the state named init, 0 when there is none
InitState == FindState(machine, "init")

\* C21: whenever a state named init exists and its entry block has
\* statements, RunStateMachine enters the loop with init as the current
\* state, whatever status the entry block returned: it never returns.
C21_InitEntryFailureNonFatal ==
    ( /\ InitState # 0
      /\ machine[InitState].entry = "STMTS"
      /\ pc # "start" ) =>
       /\ pc # "returned"
       /\ log[1].op = "switch" /\ log[1].st = InitState

\* C22: a missing entry or exit block counts as an empty block: the step
\* that meets it returns EOK (so that the transition completes), and a
\* missing entry block on init does not make RunStateMachine return.
C22_MissingBlockIsEmpty ==
    /\ \A i \in LogIdx :
          log[i].op \in {"noexit", "noentry"} => log[i].res = EOK
    /\ ( /\ InitState # 0
         /\ machine[InitState].entry = "NULL" ) => pc # "returned"

\* number of SYSVAR nodes of the tree that carry the handle h
RECURSIVE CountSysvar(_, _)
CountSysvar(v, h) ==
    IF IsNull(v) THEN 0
    ELSE ( IF v.operation = "VA_SYSVAR" /\ v.hVar = h THEN 1 ELSE 0 )
         + CountSysvar(v.left, h) + CountSysvar(v.right, h)

\* the guard of the tr-th transition of the st-th state definition
SrcGuard(st, tr) == src.states[st].trans[tr].pVariable

\* number of VAR_Notify calls for handle h made for that transition
Requests(st, tr, h) ==
    Cardinality({ k \in 1..Len(notified) :
                    /\ notified[k].st = st
                    /\ notified[k].tr = tr
                    /\ notified[k].hVar = h })

\* the transition rule has been reduced for that transition
Completed(st, tr) ==
    st < CurState \/ (st = CurState /\ tr <= Len(translist))

\* the handles of the SYSVAR nodes of the guards, and of the calls made
VarHandles ==
    {VAR_INVALID}
    \cup { notified[k].hVar : k \in 1..Len(notified) }
    \cup { n.hVar : n \in
            UNION { UNION { NodesOf(SrcGuard(st, tr)) :
                            tr \in 1..Len(src.states[st].trans) } :
                    st \in 1..Len(src.states) } }

\* C23: the VAR_Notify calls correspond one-to-one to the SYSVAR nodes with
\* a valid handle of the guards of the transitions completed so far: one
\* call per node, made for its transition when it is completed, none for
\* an invalid handle and none for anything else (entry and exit blocks).
C23_OneRequestPerGuardNode ==
    /\ \A st \in 1..Len(src.states) :
          \A tr \in 1..Len(src.states[st].trans) :
             \A h \in VarHandles :
                Requests(st, tr, h) =
                   IF Completed(st, tr) /\ h # VAR_INVALID
                   THEN CountSysvar(SrcGuard(st, tr), h)
                   ELSE 0
    /\ \A k \in 1..Len(notified) :
          /\ notified[k].st \in 1..Len(src.states)
          /\ notified[k].tr \in 1..Len(src.states[notified[k].st].trans)

\* a text with statements in its blocks, a guard with an invalid handle
\* and a variable referenced by two guards has been parsed to its end
C23_Witness ==
    /\ pc = "start"
    /\ proc.yyparse = "0"
    /\ Len(notified) >= 3
    /\ \E st \in 1..Len(src.states) :
          /\ src.states[st].entry = "STMTS"
          /\ \E tr \in 1..Len(src.states[st].trans) :
                CountSysvar(SrcGuard(st, tr), VAR_INVALID) >= 1
    /\ \E k, j \in 1..Len(notified) :
          /\ notified[k].hVar = notified[j].hVar
          /\ notified[k].st # notified[j].st

\* a VAR_Notify call for handle h made for that transition failed
FailedRequest(st, tr, h) ==
    \E k \in 1..Len(notified) :
       /\ notified[k].st = st
       /\ notified[k].tr = tr
       /\ notified[k].hVar = h
       /\ notified[k].rc # EOK

\* the statemachine rule has been reduced
Reduced ==
    proc.yyparse # "running" /\ src.err \notin 1..Len(src.states)

\* C24 as stated: the transitions are installed whatever VAR_Notify
\* returned, and a transition one of whose requests for a variable failed
\* never switches the state on an event for that variable.
C24_FailedSubscriptionNeverFires ==
    /\ Reduced => machine = src.states
    /\ \A i \in LogIdx :
          ( /\ log[i].op = "switch"
            /\ log[i].tr >= 1
            /\ log[i].sig = VAR_NOTIFICATION ) =>
             ~FailedRequest(pState, log[i].tr, log[i].ident)

\* C24, amended: the transitions are installed whatever VAR_Notify
\* returned; an event for a variable reaches the engine only if some
\* request for that variable succeeded, so a transition with a failed
\* request fires on its variable only when another request for the same
\* variable succeeded.
C24_FiresOnlyIfSubscribedElsewhere ==
    /\ Reduced => machine = src.states
    /\ (Handling /\ signum = VAR_NOTIFICATION) => id \in Subscribed
    /\ \A i \in LogIdx :
          ( /\ log[i].op = "switch"
            /\ log[i].tr >= 1
            /\ log[i].sig = VAR_NOTIFICATION
            /\ FailedRequest(pState, log[i].tr, log[i].ident) ) =>
             \E k \in 1..Len(notified) :
                /\ notified[k].hVar = log[i].ident
                /\ notified[k].rc = EOK

\* a transition with a failed request for a variable has fired on an
\* event for that variable
C24_Witness ==
    /\ pc = "wait"
    /\ signum = VAR_NOTIFICATION
    /\ \E tr \in 1..Len(log) :
          /\ Fired(tr)
          /\ FailedRequest(pState, tr, id)

\* C25: a process ended by SIGINT or SIGTERM has closed the variable
\* server handle, freed the machine and exited with status 1.
C25_GracefulTermination ==
    ( /\ pc = "killed"
      /\ proc.status \notin {TIMER_NOTIFICATION, VAR_NOTIFICATION} ) =>
       /\ proc.hVarServer = "closed"
       /\ proc.freed
       /\ proc.status = "exit 1"

C27_BlockedBeforeFirstEvent ==
    /\ (Alive /\ (Subscribed # {} \/ TimerMayExist)) => blocked
    /\ proc.status \notin {TIMER_NOTIFICATION, VAR_NOTIFICATION}

\* the names of the state definitions reduced
ParsedNames == { stack[k].id : k \in 1..Len(stack) }

\* C28: after a syntax error the states parsed are the machine's state
\* list, and init is entered if and only if it is among them.
C28_ParsedStatesRemain ==
    proc.yyparse = "1" =>
       /\ machine = stack
       /\ pc \notin {"start", "killed"} =>
             (pCurrentState # 0 <=> "init" \in ParsedNames)

\* the name of the current state
Cur == IF pCurrentState = 0 THEN "NULL" ELSE machine[pCurrentState].id

\* the loop waits for an event
AtWait == pc = "wait"

\* the state the last dispatch left, when it ended with a transition
LeftState ==
    IF log # << >> /\ log[Len(log)].op = "entry" /\ log[Len(log)].res = EOK
    THEN machine[log[Len(log)].from].id
    ELSE "NULL"

\* C29: example1 starts in init and then alternates between on and off for
\* ever; the state changes only in the dispatch of an event of timer 1; and
\* whenever the loop waits for an event /sys/test/a is 1 in on and 0 in off
C29_Example1Alternates ==
    /\ [][ pCurrentState' # pCurrentState =>
             IF pCurrentState = 0 THEN Cur' = "init"
             ELSE /\ signum = TIMER_NOTIFICATION
                  /\ id = 1
                  /\ <<Cur, Cur'>> \in { <<"init", "on">>, <<"on", "off">>,
                                         <<"off", "on">> } ]_vars
    /\ [](AtWait /\ Cur = "on" => store[VarHandle("/sys/test/a")] = 1)
    /\ [](AtWait /\ Cur = "off" => store[VarHandle("/sys/test/a")] = 0)
    /\ []<>(AtWait /\ Cur = "on")
    /\ []<>(AtWait /\ Cur = "off")

\* the loop waits in on after a visit to off
C29_Witness ==
    /\ machine = Example1
    /\ AtWait
    /\ Cur = "on"
    /\ LeftState = "off"
    /\ store[VarHandle("/sys/test/a")] = 1

\* C30: example2, whenever the loop waits for an event in a state other
\* than init: the siren is 1 exactly in alarm, and armed is 1 exactly in
\* armed and alarm
C30_Example2Outputs ==
    AtWait /\ Cur \notin {"NULL", "init"} =>
       /\ store[VarHandle("/sys/alarm/siren")] = 1 <=> Cur = "alarm"
       /\ store[VarHandle("/sys/alarm/armed")] = 1 <=>
             Cur \in {"armed", "alarm"}

\* the loop waits in armed after the alarm timed out
C30_Witness ==
    /\ machine = Example2
    /\ AtWait
    /\ Cur = "armed"
    /\ LeftState = "alarm"
    /\ store[VarHandle("/sys/alarm/siren")] = 0
    /\ store[VarHandle("/sys/alarm/armed")] = 1

\* the timer signals that are pending
PendingTimers ==
    { k \in 1..Len(pending) : pending[k].sig = TIMER_NOTIFICATION }

\* a pending timer signal whose timer has been deleted
StalePending == \E k \in PendingTimers : pending[k].h = -1

\* no timer of the process is alive
NoLiveTimer == \A h \in Handles : ~ktimers[h].live

\* the event being handled is the notification of /sys/alarm/activate
ActivateEvent ==
    /\ signum = VAR_NOTIFICATION
    /\ id = VarHandle("/sys/alarm/activate")

\* C31: example2, in arming. When the notification of activate is handled
\* with activate = 0, the guard of `disarmed` holds, the exit block deletes
\* timer 1 (no timer of the process is left) and the machine enters
\* disarmed. While the machine waits in arming or in disarmed no timer of
\* an earlier period is left, and in arming every pending timer signal
\* comes from the live timer that arming's entry block created: armed is
\* entered from arming only in the dispatch of that timer's event.
C31_DisarmWhileArming ==
    /\ [][ ( /\ Cur = "arming" /\ pc = "expr" /\ pc' # pc
             /\ ActivateEvent
             /\ store[VarHandle("/sys/alarm/activate")] = 0 )
           => pc' = "exit" ]_vars
    /\ [][ ( Cur = "arming" /\ pc = "exit" /\ pc' # pc )
           => ( pc' = "enter" /\ NoLiveTimer' ) ]_vars
    /\ [][ ( Cur = "arming" /\ pCurrentState' # pCurrentState )
           => IF ActivateEvent
              THEN Cur' = "disarmed" /\ NoLiveTimer
              ELSE /\ Cur' = "armed"
                   /\ signum = TIMER_NOTIFICATION
                   /\ id = 1 ]_vars
    /\ []( (AtWait /\ Cur = "disarmed") => NoLiveTimer )
    /\ []( (AtWait /\ Cur = "arming") =>
              /\ \A h \in Handles :
                    ktimers[h].live => h = timers[1] /\ ktimers[h].sival = 1
              /\ \A k \in PendingTimers :
                    /\ pending[k].h = timers[1]
                    /\ ktimers[timers[1]].live )

\* the machine left arming for disarmed, and the signal of the deleted
\* timer is still pending
C31_Witness ==
    /\ machine = Example2
    /\ AtWait
    /\ Cur = "disarmed"
    /\ LeftState = "arming"
    /\ StalePending

\* the event being handled is the notification of /sys/alarm/trigger
TriggerEvent ==
    /\ signum = VAR_NOTIFICATION
    /\ id = VarHandle("/sys/alarm/trigger")

\* timer n will deliver an event: it is alive and armed, or its signal is
\* pending
TimerRuns(n) ==
    \E h \in Handles :
       /\ ktimers[h].live
       /\ ktimers[h].sival = n
       /\ \/ ktimers[h].armed
          \/ \E k \in PendingTimers : pending[k].h = h

\* C32: example2, the four legs of the happy path, each as what makes the
\* leg happen once timers expire and pending events are taken: in disarmed
\* the notification of activate handled with activate = 1 leads to arming;
\* while the machine waits in arming timer 1 runs, and its event leads to
\* armed; in armed the notification of trigger handled with trigger = 1
\* leads to alarm; while the machine waits in alarm timer 1 runs, and its
\* event leads to armed.
C32_HappyPath ==
    /\ [][ ( /\ Cur = "disarmed" /\ pc = "expr" /\ pc' # pc
             /\ ActivateEvent
             /\ store[VarHandle("/sys/alarm/activate")] = 1 )
           => pc' = "exit" ]_vars
    /\ [][ ( Cur = "disarmed" /\ pc \in {"exit", "enter"} /\ pc' # pc )
           => ( pc' = "enter" \/ Cur' = "arming" ) ]_vars
    /\ []( (AtWait /\ Cur = "arming") => TimerRuns(1) )
    /\ [][ ( /\ Cur = "arming" /\ pc = "handle" /\ pc' # pc
             /\ signum = TIMER_NOTIFICATION )
           => pc' = "check" ]_vars
    /\ [][ ( /\ Cur = "armed" /\ pc = "expr" /\ pc' # pc
             /\ TriggerEvent
             /\ store[VarHandle("/sys/alarm/trigger")] = 1 )
           => pc' = "exit" ]_vars
    /\ [][ ( /\ Cur = "armed" /\ TriggerEvent
             /\ pc \in {"exit", "enter"} /\ pc' # pc )
           => ( pc' = "enter" \/ Cur' = "alarm" ) ]_vars
    /\ []( (AtWait /\ Cur = "alarm") => TimerRuns(1) )
    /\ [][ ( /\ Cur \in {"arming", "alarm"}
             /\ signum = TIMER_NOTIFICATION
             /\ pCurrentState' # pCurrentState )
           => Cur' = "armed" ]_vars

\* HandleSignal has left its loop over the transitions of pState: result is
\* what it returns
DispatchEnded ==
    /\ pState # 0
    /\ pc = "end" \/ (pc = "check" /\ TransIsNull)

\* a transition of the dispatch switched the state and the entry block of
\* its target returned EOK
FiredOk == \E i \in LogIdx : log[i].op = "entry" /\ log[i].res = EOK

\* every guard of the dispatch that was evaluated was evaluated with
\* success
GuardsEvaluated == \A i \in LogIdx : log[i].op # "ProcessExprFailed"

\* C33: the status HandleSignal returns is EOK exactly when a transition
\* fired; it is ENOENT only when no transition of the state references the
\* event; and it is ENOTSUP whenever some transition references the event,
\* the guards evaluate with success and no transition fires.
C33_StatusClassifiesDispatch ==
    DispatchEnded =>
       /\ result = EOK <=> FiredOk
       /\ result = "ENOENT" => NotReferenced
       /\ (~NotReferenced /\ GuardsEvaluated /\ ~FiredOk)
             => result = "ENOTSUP"

\* C34: in a dispatch every guard is evaluated, and every exit block run,
\* with the current state being the state the transition belongs to; and
\* once the current state was switched to a target whose entry block
\* returned an error, no further transition is checked.
C34_GuardsOfCurrentState ==
    /\ \A i \in LogIdx :
          log[i].op \in {"ProcessExpr", "ProcessExprFailed", "exit", "noexit"}
             => log[i].st = pState
    /\ \A i \in LogIdx :
          ( /\ log[i].op \in {"entry", "noentry"}
            /\ log[i].tr >= 1
            /\ log[i].res # EOK )
             => \A j \in LogIdx : j > i => log[j].op # "CheckInConditions"

TargetOf(tr) == FindState(machine, machine[pState].trans[tr].statename)

\* the tr-th transition switched the current state
Switched(tr) == \E j \in LogIdx : log[j].op = "switch" /\ log[j].tr = tr

C36_OtherTimersUntouched ==
    [][ (call'.n # call.n) =>
          /\ \A h \in Handles :
                (ktimers[h].live /\ ktimers[h].sival # call'.st.left)
                   => ktimers'[h] = ktimers[h]
          /\ ( /\ TimerFunction(call'.st) = "DeleteTimer"
               /\ LiveTimers(call'.st.left) = {} )
                => \A h \in Handles :
                      ktimers[h].live => ktimers'[h] = ktimers[h] ]_vars

\* C37: after CreateTimer or CreateTick has returned EOK for timer number
\* i, and until the next timer statement, a live timer carrying i exists
\* that is armed or has fired: an event carrying i is delivered.
C37_CreatedMeansArmed ==
    ( /\ CalledInRange
      /\ TimerFunction(call.st) \in {"CreateTimer", "CreateTick"}
      /\ tresult = EOK ) =>
       \E h \in LiveTimers(call.st.left) :
          \/ ktimers[h].armed
          \/ gens[ktimers[h].gen].fired >= 1

\* C38: a timer expiration that was queued before its timer was deleted or
\* created again is not handled as an expiration of the timer that carries
\* the number now: when sigwaitinfo returns such an expiration, the current
\* state has no transition that waits for its timer number (the guard
\* `timer N` is true on every event that carries N, so the transition
\* would fire).
C38_NoStaleExpirationFires ==
    [][ (pc = "wait" /\ pc' = "handle") =>
          LET e == pending[NextPending(pending)] IN
          (e.sig = TIMER_NOTIFICATION /\ e.h = -1) =>
             \A t \in 1..Len(machine[pCurrentState].trans) :
                ~References(machine[pCurrentState].trans[t].pVariable,
                            TIMER_NOTIFICATION, e.id) ]_vars

\* RunStateMachine has called EnterState( "init" ) and HandleSignal has not
\* been called yet
BeforeFirstEvent == pc \in {"wait", "handle", "returned"} /\ pState = 0

\* C39: when the definition has a state init with an entry block, then
\* until the first event is handled the entry block of init has run exactly
\* once, it ran before any event was dequeued, no exit block has run, and
\* the active timer register is 0.
C39_InitEntryOnceAtStart ==
    ( /\ BeforeFirstEvent
      /\ InitState # 0
      /\ machine[InitState].entry # "NULL" ) =>
       /\ Count("entry") = 1
       /\ \A i \in LogIdx :
             log[i].op = "entry" =>
                /\ log[i].st = InitState
                /\ log[i].sig = NO_SIGNAL
                /\ log[i].ident = 0
       /\ Count("exit") = 0
       /\ Count("noexit") = 0
       /\ activeTimer = 0

\* the first event, the expiration of a timer, has been dequeued and is
\* about to be handled; init's entry block has statements
C39_Witness ==
    /\ BeforeFirstEvent
    /\ pc = "handle"
    /\ signum = TIMER_NOTIFICATION
    /\ InitState # 0
    /\ machine[InitState].entry = "STMTS"
    /\ Count("entry") = 1

====
